---- MODULE Spec2Model ----
(***************************************************************************)
(* Grouped fit / extrapolation workflows of MAST-ML:                       *)
(*   ExtrapolateFull.execute, ExtrapolateFullFit.execute and the           *)
(*   SingleFitGrouped class (set_data, get_per_group_statistics,           *)
(*   get_outlying_groups, plot_results).                                   *)
(*                                                                         *)
(* Row indices are 0-based as in the Python source; row i of a dataset is  *)
(* element i+1 of the TLA+ sequence that holds its column.                 *)
(* A mean squared error is kept exactly as the pair (sum of squared        *)
(* errors, number of rows); its root is the RMSE the source reports.       *)
(***************************************************************************)
EXTENDS Integers, Sequences, FiniteSets, TLC

\* ------------------------------------------------------------------ bounds
MaxTrainRows == 2
MaxTopredictRows == 4
MaxTestRows == 3
MaxMark == 2

GroupLabels == {1, 2, 3}
\* labels of the to-predict rows of ExtrapolateFull: 1 is a training-only group
TopredictLabels == {2, 3}
\* predicted minus measured, per evaluation row
TopredictResiduals == {0, 2}
TestResiduals == {0, 1, 2}

\* a metric is a record: not computed yet, the ValueError its computation
\* raised, or the mean squared error as (sum of squares, number of rows)
NoValue == [st |-> "unset", sse |-> 0, n |-> 0]
ValueError == [st |-> "ValueError", sse |-> 0, n |-> 0]

VARIABLES
    workflow,                   \* which entry point is being run
    pc,                         \* position inside the entry point
    train_groupdata,            \* group label of every training row
    test_groupdata,             \* group label of every evaluation row
    fit_only_on_matched_groups, \* the 0/1 keyword argument
    has_std,                    \* standard_conditions_csv is not None
    group_field_name,           \* "group", or "None" when not given
    has_test_target,            \* testing_target_data is not None
    plot_filter_out,            \* ExtrapolateFullFit: the filter triplets
    plot_filter_set,            \* SingleFitGrouped: plot_filter_out is not None
    plotting_index,             \* SingleFitGrouped: rows that pass the plot filter
    mark_outlying_groups,
    train_excluded,             \* labels under an exclusive filter, training data
    test_excluded,              \* labels under an exclusive filter, test data
    fit_index,                  \* training rows handed to model.fit, in order
    supported_index,
    unsupported_index,
    calls,                      \* the calls made on the model, in order
    Ypredict,                   \* result of model.predict on the evaluation X
    rms,                        \* overall / supported / unsupported RMSE
    test_groups,                \* SingleFitGrouped.test_groups
    per_group_statistics,
    highest_rmses,              \* the slots of get_outlying_groups
    scan,                       \* number of test groups get_outlying_groups has seen
    outlying_groups,
    plotted_outlying_groups,    \* what plot_results handed to the plotting code
    repeated                    \* get_outlying_groups was called more than once

\* arguments and datasets as given by the caller: no action assigns them
inputs == <<workflow, train_groupdata, test_groupdata,
            fit_only_on_matched_groups, has_std, group_field_name,
            has_test_target, plot_filter_out, plot_filter_set, plotting_index,
            mark_outlying_groups>>

\* state of the extrapolation workflows
fitState == <<train_excluded, test_excluded, fit_index>>
splitState == <<supported_index, unsupported_index>>
\* state of the grouped statistics
groupState == <<test_groups, per_group_statistics, highest_rmses, scan,
                outlying_groups, plotted_outlying_groups, repeated>>

vars == <<inputs, pc, fitState, splitState, calls, Ypredict, rms, groupState>>

\* ----------------------------------------------------------------- helpers
SeqsUpTo(S, n) == UNION {[1..m -> S] : m \in 0..n}

RECURSIVE Concat(_)
\* list.extend applied for every element of a sequence of lists
Concat(ss) == IF ss = <<>> THEN <<>> ELSE Head(ss) \o Concat(Tail(ss))

Range(s) == {s[i] : i \in DOMAIN s}

RECURSIVE SortedSeq(_)
\* numpy returns the unique values of a set operation in ascending order
SortedSeq(S) ==
    IF S = {} THEN <<>>
    ELSE LET m == CHOOSE x \in S : \A y \in S : x <= y
         IN <<m>> \o SortedSeq(S \ {m})

intersect1d(a, b) == SortedSeq(Range(a) \cap Range(b))

setdiff1d(a, b) == SortedSeq(Range(a) \ Range(b))

RECURSIVE Keys(_)
\* keys of the group index map, in the order the groups are first met
Keys(labels) ==
    IF labels = <<>> THEN <<>>
    ELSE LET init == SubSeq(labels, 1, Len(labels) - 1)
             last == labels[Len(labels)]
         IN IF last \in Range(init) THEN Keys(init)
            ELSE Append(Keys(init), last)

RECURSIVE RowsOf(_, _)
\* indices[group]["test_index"]: the rows bearing the label, in row order
RowsOf(labels, g) ==
    IF labels = <<>> THEN <<>>
    ELSE LET init == SubSeq(labels, 1, Len(labels) - 1)
         IN IF labels[Len(labels)] = g
            THEN Append(RowsOf(init, g), Len(labels) - 1)
            ELSE RowsOf(init, g)

get_logo_indices(labels) ==
    [keys |-> Keys(labels),
     test_index |-> [g \in Range(labels) |-> RowsOf(labels, g)]]

AllRows(n) == [i \in 1..n |-> i - 1]

\* the measured target of evaluation row i (0-based) is i+1
Measured(n) == [i \in 1..n |-> i]

RECURSIVE SumSq(_, _, _)
SumSq(y, yhat, rows) ==
    IF rows = <<>> THEN 0
    ELSE LET r == Head(rows) + 1
         IN (y[r] - yhat[r]) * (y[r] - yhat[r]) + SumSq(y, yhat, Tail(rows))

\* sklearn.metrics.mean_squared_error over the given rows: it rejects an
\* empty array with a ValueError
mean_squared_error(y, yhat, rows) ==
    IF Len(rows) = 0 THEN ValueError
    ELSE [st |-> "ok", sse |-> SumSq(y, yhat, rows), n |-> Len(rows)]

\* ------------------------------------------------- ExtrapolateFull.execute
\* match_groups = np.intersect1d(fit_groups, topredict_groups)
MatchGroups(train, topredict) ==
    intersect1d(get_logo_indices(train).keys, get_logo_indices(topredict).keys)

\* variant: the matched groups are walked in the order of fit_groups
FitIndexEncounterOrder(train, topredict, flag) ==
    IF flag = 1
    THEN LET ks == get_logo_indices(train).keys
         IN Concat([k \in 1..Len(ks) |->
                      IF ks[k] \in Range(topredict)
                      THEN get_logo_indices(train).test_index[ks[k]] ELSE <<>>])
    ELSE AllRows(Len(train))

\* the training rows selected for the fit
FitIndex(train, topredict, flag) ==
    IF flag = 1
    THEN LET mg == MatchGroups(train, topredict)
         IN Concat([k \in 1..Len(mg) |-> get_logo_indices(train).test_index[mg[k]]])
    ELSE AllRows(Len(train))

\* variant: the else branch extends unsupported_index for every group
SupportSplitNoElse(train, topredict, want) ==
    LET idx == get_logo_indices(topredict)
        mg == MatchGroups(train, topredict)
    IN Concat([k \in 1..Len(idx.keys) |->
                 IF want => idx.keys[k] \in Range(mg)
                 THEN idx.test_index[idx.keys[k]] ELSE <<>>])

\* rows of the to-predict groups that are (want = TRUE) or are not
\* (want = FALSE) among the matched groups, in the order of topredict_groups
SupportSplit(train, topredict, want) ==
    LET idx == get_logo_indices(topredict)
        mg == MatchGroups(train, topredict)
    IN Concat([k \in 1..Len(idx.keys) |->
                 IF (idx.keys[k] \in Range(mg)) = want
                 THEN idx.test_index[idx.keys[k]] ELSE <<>>])

EF_GroupMatch ==
    /\ workflow = "ExtrapolateFull" /\ pc = "start"
    /\ fit_index' = FitIndex(train_groupdata, test_groupdata,
                             fit_only_on_matched_groups)
    /\ supported_index' = SupportSplit(train_groupdata, test_groupdata, TRUE)
    /\ unsupported_index' = SupportSplit(train_groupdata, test_groupdata, FALSE)
    /\ pc' = "matched"
    /\ UNCHANGED <<inputs, train_excluded, test_excluded, calls, Ypredict, rms,
                   groupState>>

EF_Fit ==
    /\ workflow = "ExtrapolateFull" /\ pc = "matched"
    /\ calls' = Append(calls, "fit")
    /\ pc' = "fitted"
    /\ UNCHANGED <<inputs, fitState, splitState, Ypredict, rms, groupState>>

\* what model.predict may return for n evaluation rows
Predictions(n, residuals) ==
    {[i \in 1..n |-> Measured(n)[i] + e[i]] : e \in [1..n -> residuals]}

\* variant: the evaluation matrix is predicted a second time
PredictCallsTwice(std) ==
    <<"predict(topredict_Xdata)", "predict(topredict_Xdata)">>

PredictCalls(std) ==
    IF std THEN <<"predict(topredict_Xdata)", "predict(std_Xdata)">>
    ELSE <<"predict(topredict_Xdata)">>

EF_Predict ==
    /\ workflow = "ExtrapolateFull" /\ pc = "fitted"
    /\ Ypredict' \in Predictions(Len(test_groupdata), TopredictResiduals)
    /\ calls' = calls \o PredictCalls(has_std)
    /\ pc' = "predicted"
    /\ UNCHANGED <<inputs, fitState, splitState, rms, groupState>>

\* variant: the overall error is taken over the supported rows
StatisticsSupportedOnly(y, yhat, sup, unsup) ==
    LET o == mean_squared_error(y, yhat, sup)
        s == mean_squared_error(y, yhat, sup)
        u == mean_squared_error(y, yhat, unsup)
    IN [overall |-> o,
        supported |-> IF o = ValueError THEN NoValue ELSE s,
        unsupported |-> IF o = ValueError \/ s = ValueError THEN NoValue ELSE u]

\* lines 100-104: the three errors are computed in order; the first
\* ValueError leaves the later ones uncomputed
Statistics(y, yhat, sup, unsup) ==
    LET o == mean_squared_error(y, yhat, AllRows(Len(y)))
        s == mean_squared_error(y, yhat, sup)
        u == mean_squared_error(y, yhat, unsup)
    IN [overall |-> o,
        supported |-> IF o = ValueError THEN NoValue ELSE s,
        unsupported |-> IF o = ValueError \/ s = ValueError THEN NoValue ELSE u]

Raised(r) == ValueError \in {r.overall, r.supported, r.unsupported}

EF_Statistics ==
    /\ workflow = "ExtrapolateFull" /\ pc = "predicted"
    /\ rms' = Statistics(Measured(Len(test_groupdata)), Ypredict,
                         supported_index, unsupported_index)
    /\ pc' = IF Raised(rms') THEN "raised" ELSE "statistics"
    /\ UNCHANGED <<inputs, fitState, splitState, calls, Ypredict, groupState>>

\* lines 105-122: the note list and the supported/unsupported plot
EF_Plot ==
    /\ workflow = "ExtrapolateFull" /\ pc = "statistics"
    /\ pc' = "done"
    /\ UNCHANGED <<inputs, fitState, splitState, calls, Ypredict, rms,
                   groupState>>

\* ---------------------------------------------------------- the datasets
\* data_parser: an exclusive filter (field, "=", value) on the grouping field
\* removes the rows bearing the value from every later read
FilteredRows(labels, excluded) ==
    LET keep(i) == IF labels[i] \in excluded THEN <<>> ELSE <<i - 1>>
    IN Concat([i \in 1..Len(labels) |-> keep(i)])

FilteredLabels(labels, excluded) ==
    LET rows == FilteredRows(labels, excluded)
    IN [k \in 1..Len(rows) |-> labels[rows[k] + 1]]

\* --------------------------------------------- ExtrapolateFullFit.execute
\* lines 63-74: every triplet of plot_filter_out becomes an exclusive filter
\* on the test data
PlotFilterLabels(triplets) ==
    {t[3] : t \in {u \in Range(triplets) : u[1] = "group" /\ u[2] = "="}}

\* lines 66-69: fpcs[1] or fpcs[2] raises IndexError on a piece with fewer
\* than three fields; the fields after the third are never read.  The
\* position of the first such piece, or one past the last piece
FirstShort(triplets) ==
    CHOOSE b \in 1..(Len(triplets) + 1) :
        /\ b <= Len(triplets) => Len(triplets[b]) < 3
        /\ \A i \in 1..(b - 1) : Len(triplets[i]) >= 3

EFF_ReadTest ==
    /\ workflow = "ExtrapolateFullFit" /\ pc = "start"
    /\ LET bad == FirstShort(plot_filter_out)
       IN /\ test_excluded' =
               PlotFilterLabels(SubSeq(plot_filter_out, 1, bad - 1))
          /\ pc' = IF bad <= Len(plot_filter_out) THEN "raised" ELSE "test_read"
    /\ UNCHANGED <<inputs, train_excluded, fit_index, splitState, calls,
                   Ypredict, rms, groupState>>

\* variant: the difference is taken the other way round
GroupsNotInTestSwapped(train_labels, test_labels) ==
    Range(setdiff1d(test_labels, train_labels))

\* line 89 / SingleFitGrouped line 120: the training groups to filter out
GroupsNotInTest(train_labels, test_labels) ==
    Range(setdiff1d(train_labels, test_labels))

\* lines 82-93
EFF_MatchedFilter ==
    /\ workflow = "ExtrapolateFullFit" /\ pc = "test_read"
    /\ train_excluded' =
         IF fit_only_on_matched_groups = 1 /\ group_field_name # "None"
         THEN train_excluded \cup
                GroupsNotInTest(FilteredLabels(train_groupdata, train_excluded),
                                FilteredLabels(test_groupdata, test_excluded))
         ELSE train_excluded
    /\ fit_index' = FilteredRows(train_groupdata, train_excluded')
    /\ pc' = "train_read"
    /\ UNCHANGED <<inputs, test_excluded, splitState, calls, Ypredict, rms,
                   groupState>>

\* line 119: FullFit.do_full_fit fits the model on full_xtrain, full_ytrain
EFF_FullFit ==
    /\ workflow = "ExtrapolateFullFit" /\ pc = "train_read"
    /\ calls' = Append(calls, "fit")
    /\ pc' = "fitted"
    /\ UNCHANGED <<inputs, fitState, splitState, Ypredict, rms, groupState>>

\* ------------------------------------------------------- SingleFitGrouped
\* variant: the constructor accepts a missing grouping feature
SFG_ConstructNoCheck ==
    /\ workflow = "SingleFitGrouped" /\ pc = "start"
    /\ pc' = "constructed"
    /\ UNCHANGED <<inputs, fitState, splitState, calls, Ypredict, rms,
                   groupState>>

\* lines 100-115
SFG_Construct ==
    /\ workflow = "SingleFitGrouped" /\ pc = "start"
    /\ pc' = IF group_field_name = "None" THEN "raised" ELSE "constructed"
    /\ UNCHANGED <<inputs, fitState, splitState, calls, Ypredict, rms,
                   groupState>>

\* lines 117-126, with set_group_info (lines 163-170) and SingleFit.set_data
SFG_SetData ==
    /\ workflow = "SingleFitGrouped" /\ pc = "constructed"
    /\ test_groups' = get_logo_indices(test_groupdata).keys
    /\ train_excluded' =
         IF fit_only_on_matched_groups = 1
         THEN train_excluded \cup
                GroupsNotInTest(
                   get_logo_indices(
                      FilteredLabels(train_groupdata, train_excluded)).keys,
                   test_groups')
         ELSE train_excluded
    /\ fit_index' = FilteredRows(train_groupdata, train_excluded')
    /\ pc' = IF has_test_target THEN "data_set" ELSE "raised"
    /\ UNCHANGED <<inputs, test_excluded, splitState, calls, Ypredict, rms,
                   per_group_statistics, highest_rmses, scan, outlying_groups,
                   plotted_outlying_groups, repeated>>

SFG_Fit ==
    /\ workflow = "SingleFitGrouped" /\ pc = "data_set"
    /\ calls' = Append(calls, "fit")
    /\ pc' = "fitted"
    /\ UNCHANGED <<inputs, fitState, splitState, Ypredict, rms, groupState>>

SFG_Predict ==
    /\ workflow = "SingleFitGrouped" /\ pc = "fitted"
    /\ Ypredict' \in Predictions(Len(test_groupdata), TestResiduals)
    /\ calls' = Append(calls, "predict(testing_input_data)")
    /\ pc' = "predicted"
    /\ UNCHANGED <<inputs, fitState, splitState, rms, groupState>>

\* variant: the filtered error is stored without the test on len(g_index)
GroupRecordNoLengthTest(labels, yhat, filtered, plot_index, g) ==
    LET g_index == get_logo_indices(labels).test_index[g]
        y == Measured(Len(labels))
        shown == SortedSeq(Range(g_index) \cap plot_index)
    IN IF filtered
       THEN [rmse |-> mean_squared_error(yhat, y, g_index),
             rmse_plot_filter_out |-> mean_squared_error(yhat, y, shown)]
       ELSE [rmse |-> mean_squared_error(yhat, y, g_index)]

\* lines 174-188: the record of one test group
GroupRecord(labels, yhat, filtered, plot_index, g) ==
    LET g_index == get_logo_indices(labels).test_index[g]
        y == Measured(Len(labels))
        shown == SortedSeq(Range(g_index) \cap plot_index)
    IN IF filtered /\ Len(shown) > 0
       THEN [rmse |-> mean_squared_error(yhat, y, g_index),
             rmse_plot_filter_out |-> mean_squared_error(yhat, y, shown)]
       ELSE [rmse |-> mean_squared_error(yhat, y, g_index)]

\* lines 172-189
get_per_group_statistics ==
    /\ workflow = "SingleFitGrouped" /\ pc = "predicted"
    /\ per_group_statistics' =
         [g \in Range(test_groups) |->
            GroupRecord(test_groupdata, Ypredict, plot_filter_set,
                        plotting_index, g)]
    /\ pc' = "group_statistics"
    /\ UNCHANGED <<inputs, fitState, splitState, calls, Ypredict, rms,
                   test_groups, highest_rmses, scan, outlying_groups,
                   plotted_outlying_groups, repeated>>

\* the label "nogroup" of an unused slot; the group labels are 1, 2, ...
NoGroup == 0
Zero == [st |-> "ok", sse |-> 0, n |-> 1]
Sentinel == [v |-> Zero, g |-> NoGroup]

\* comparison of two mean squared errors (the roots compare the same way)
ValueLess(a, b) == a.sse * b.n < b.sse * a.n
ValueSame(a, b) == a.sse * b.n = b.sse * a.n

\* Python compares the (rmse, label) tuples element by element
EntryLess(e, f) ==
    \/ ValueLess(e.v, f.v)
    \/ ValueSame(e.v, f.v) /\ e.g < f.g
EntrySame(e, f) == ValueSame(e.v, f.v) /\ e.g = f.g

\* variant: the first slot that holds the least value, whatever its label
MinEntryFirstSlot(slots) ==
    slots[CHOOSE i \in DOMAIN slots :
            /\ \A j \in DOMAIN slots : ~ValueLess(slots[j].v, slots[i].v)
            /\ \A j \in 1..(i - 1) : ValueLess(slots[i].v, slots[j].v)]

\* min(highest_rmses)
MinEntry(slots) ==
    slots[CHOOSE i \in DOMAIN slots :
            /\ \A j \in DOMAIN slots : ~EntryLess(slots[j], slots[i])
            /\ \A j \in 1..(i - 1) : EntryLess(slots[i], slots[j])]

\* highest_rmses.index(entry)
IndexOf(slots, entry) ==
    CHOOSE i \in DOMAIN slots :
        /\ EntrySame(slots[i], entry)
        /\ \A j \in 1..(i - 1) : ~EntrySame(slots[j], entry)

Criterion(filtered) == IF filtered THEN "rmse_plot_filter_out" ELSE "rmse"

Min(a, b) == IF a <= b THEN a ELSE b

\* variant: the number of slots is not capped by the number of groups
NumMarkNoCap(k, groups) == k

\* lines 194-196
NumMark(k, groups) == Min(k, Len(groups))

\* variant: a group also displaces a slot of equal value
ScanGroupAtLeast(slots, stats, criterion, group) ==
    LET min_entry == MinEntry(slots)
    IN IF /\ criterion \in DOMAIN stats[group]
          /\ ~ValueLess(stats[group][criterion], min_entry.v)
       THEN [slots EXCEPT ![IndexOf(slots, min_entry)] =
               [v |-> stats[group][criterion], g |-> group]]
       ELSE slots

\* lines 202-207: one pass of the loop over the test groups
ScanGroup(slots, stats, criterion, group) ==
    LET min_entry == MinEntry(slots)
    IN IF /\ criterion \in DOMAIN stats[group]
          /\ ValueLess(min_entry.v, stats[group][criterion])
       THEN [slots EXCEPT ![IndexOf(slots, min_entry)] =
               [v |-> stats[group][criterion], g |-> group]]
       ELSE slots

\* lines 192-200
get_outlying_groups_begin ==
    /\ workflow = "SingleFitGrouped" /\ pc = "group_statistics"
    /\ outlying_groups' = <<>>
    /\ highest_rmses' =
         [i \in 1..NumMark(mark_outlying_groups, test_groups) |-> Sentinel]
    /\ scan' = 0
    /\ pc' = "scanning"
    /\ UNCHANGED <<inputs, fitState, splitState, calls, Ypredict, rms,
                   test_groups, per_group_statistics, plotted_outlying_groups,
                   repeated>>

\* lines 192-200, when the method is called again after it has returned
get_outlying_groups_again ==
    /\ workflow = "SingleFitGrouped" /\ pc = "statistics"
    /\ outlying_groups' = <<>>
    /\ highest_rmses' =
         [i \in 1..NumMark(mark_outlying_groups, test_groups) |-> Sentinel]
    /\ scan' = 0
    /\ repeated' = TRUE
    /\ pc' = "scanning"
    /\ UNCHANGED <<inputs, fitState, splitState, calls, Ypredict, rms,
                   test_groups, per_group_statistics, plotted_outlying_groups>>

\* lines 201-207; min() of an empty list raises ValueError
get_outlying_groups_step ==
    /\ workflow = "SingleFitGrouped" /\ pc = "scanning"
    /\ scan < Len(test_groups)
    /\ IF highest_rmses = <<>>
       THEN /\ pc' = "raised"
            /\ UNCHANGED <<highest_rmses, scan>>
       ELSE /\ highest_rmses' =
                 ScanGroup(highest_rmses, per_group_statistics,
                           Criterion(plot_filter_set), test_groups[scan + 1])
            /\ scan' = scan + 1
            /\ pc' = "scanning"
    /\ UNCHANGED <<inputs, fitState, splitState, calls, Ypredict, rms,
                   test_groups, per_group_statistics, outlying_groups,
                   plotted_outlying_groups, repeated>>

\* lines 208-211
get_outlying_groups_end ==
    /\ workflow = "SingleFitGrouped" /\ pc = "scanning"
    /\ scan = Len(test_groups)
    /\ outlying_groups' =
         outlying_groups \o [i \in DOMAIN highest_rmses |-> highest_rmses[i].g]
    /\ pc' = "statistics"
    /\ UNCHANGED <<inputs, fitState, splitState, calls, Ypredict, rms,
                   test_groups, per_group_statistics, highest_rmses, scan,
                   plotted_outlying_groups, repeated>>

\* lines 144-161
plot_results ==
    /\ workflow = "SingleFitGrouped" /\ pc = "statistics"
    /\ plotted_outlying_groups' = outlying_groups
    /\ pc' = "done"
    /\ UNCHANGED <<inputs, fitState, splitState, calls, Ypredict, rms,
                   test_groups, per_group_statistics, highest_rmses, scan,
                   outlying_groups, repeated>>

\* ------------------------------------------------------------ specification
NoRms == [overall |-> NoValue, supported |-> NoValue, unsupported |-> NoValue]

\* the state every entry point starts from
Fresh ==
    /\ pc = "start"
    /\ train_excluded = {}
    /\ test_excluded = {}
    /\ fit_index = <<>>
    /\ supported_index = <<>>
    /\ unsupported_index = <<>>
    /\ calls = <<>>
    /\ Ypredict = <<>>
    /\ rms = NoRms
    /\ test_groups = <<>>
    /\ per_group_statistics = <<>>
    /\ highest_rmses = <<>>
    /\ scan = 0
    /\ outlying_groups = <<>>
    /\ plotted_outlying_groups = <<>>
    /\ repeated = FALSE

\* arguments of the grouped statistics, left at their defaults
NoGroupedArgs ==
    /\ plot_filter_set = FALSE
    /\ plotting_index = {}
    /\ mark_outlying_groups = 2

\* ExtrapolateFull.execute, from its arguments to the plot
InitEF ==
    /\ workflow = "ExtrapolateFull"
    /\ train_groupdata \in SeqsUpTo(GroupLabels, MaxTrainRows)
    /\ test_groupdata \in SeqsUpTo(TopredictLabels, MaxTopredictRows)
    /\ fit_only_on_matched_groups \in {0, 1}
    /\ has_std \in BOOLEAN
    /\ group_field_name = "group"
    /\ has_test_target = TRUE
    /\ plot_filter_out = <<>>
    /\ NoGroupedArgs
    /\ Fresh

NextEF ==
    \/ EF_GroupMatch
    \/ EF_Fit
    \/ EF_Predict
    \/ EF_Statistics
    \/ EF_Plot

SpecExtrapolate == InitEF /\ [][NextEF]_vars

\* plot_filter_out of ExtrapolateFullFit, split at ";" and ",": no filter, one
\* triplet on the grouping field, a piece of two or of four fields, or a
\* piece of two fields after a triplet
PlotFilters ==
    {<<>>, << <<"group", "=">> >>}
      \cup {<< <<"group", "=", g>> >> : g \in GroupLabels}
      \cup {<< <<"group", "=", g, "x">> >> : g \in GroupLabels}
      \cup {<< <<"group", "=", g>>, <<"group", "=">> >> : g \in GroupLabels}

\* the choice of the training rows in the three implementations, up to the fit
InitFit ==
    /\ workflow \in {"ExtrapolateFull", "ExtrapolateFullFit", "SingleFitGrouped"}
    /\ train_groupdata \in SeqsUpTo(GroupLabels, MaxTrainRows)
    /\ test_groupdata \in SeqsUpTo(GroupLabels, MaxTestRows)
    /\ fit_only_on_matched_groups \in {0, 1}
    /\ has_std = FALSE
    /\ group_field_name \in
         IF workflow = "ExtrapolateFull" THEN {"group"} ELSE {"group", "None"}
    /\ has_test_target \in
         IF workflow = "SingleFitGrouped" THEN BOOLEAN ELSE {TRUE}
    /\ plot_filter_out \in
         IF workflow = "ExtrapolateFullFit" THEN PlotFilters ELSE {<<>>}
    /\ NoGroupedArgs
    /\ Fresh

NextFit ==
    \/ EF_GroupMatch
    \/ EF_Fit
    \/ EFF_ReadTest
    \/ EFF_MatchedFilter
    \/ EFF_FullFit
    \/ SFG_Construct
    \/ SFG_SetData
    \/ SFG_Fit

SpecFitFilter == InitFit /\ [][NextFit]_vars

\* SingleFitGrouped on a dataset that is both fitted and tested on
InitGroupedData ==
    /\ workflow = "SingleFitGrouped"
    /\ test_groupdata \in SeqsUpTo(GroupLabels, MaxTestRows)
    /\ train_groupdata = test_groupdata
    /\ fit_only_on_matched_groups = 0
    /\ has_std = FALSE
    /\ group_field_name = "group"
    /\ has_test_target = TRUE
    /\ plot_filter_out = <<>>
    /\ Fresh

\* up to get_per_group_statistics, the plot filter showing any set of rows
InitStatistics ==
    /\ InitGroupedData
    /\ plot_filter_set \in BOOLEAN
    /\ plotting_index \in
         IF plot_filter_set THEN SUBSET (0 .. Len(test_groupdata) - 1) ELSE {{}}
    /\ mark_outlying_groups = 2

NextStatistics ==
    \/ SFG_Construct
    \/ SFG_SetData
    \/ SFG_Fit
    \/ SFG_Predict
    \/ get_per_group_statistics

SpecGroupStatistics == InitStatistics /\ [][NextStatistics]_vars

\* a plot filter that hides the rows before row t
ShownFrom(t, n) == t .. n - 1

\* the whole run, the plot filter hiding a leading part of the rows
InitSFG ==
    /\ InitGroupedData
    /\ plot_filter_set \in BOOLEAN
    /\ plotting_index \in
         IF plot_filter_set
         THEN {ShownFrom(t, Len(test_groupdata)) : t \in 0..Len(test_groupdata)}
         ELSE {{}}
    /\ mark_outlying_groups \in 0..MaxMark

NextSFG ==
    \/ SFG_Construct
    \/ SFG_SetData
    \/ SFG_Fit
    \/ SFG_Predict
    \/ get_per_group_statistics
    \/ get_outlying_groups_begin
    \/ get_outlying_groups_step
    \/ get_outlying_groups_end
    \/ plot_results

SpecGrouped == InitSFG /\ [][NextSFG]_vars

\* the whole run, get_outlying_groups being called any number of times more
\* before the plot
NextRepeated ==
    \/ NextSFG
    \/ get_outlying_groups_again

SpecRepeated == InitSFG /\ [][NextRepeated]_vars

\* ------------------------------------------------------------------ claims
IsEF == workflow = "ExtrapolateFull"

TestRows == 0 .. Len(test_groupdata) - 1
TrainRows == 0 .. Len(train_groupdata) - 1
TestLabel(i) == test_groupdata[i + 1]
TrainLabel(i) == train_groupdata[i + 1]

NoDuplicates(s) == Cardinality(Range(s)) = Len(s)

\* C1: once ExtrapolateFull.execute has split the to-predict rows,
\* supported_index holds exactly the to-predict rows whose group label occurs
\* among the training groups, unsupported_index exactly the other to-predict
\* rows; the lists are disjoint, free of duplicates, and together cover every
\* row of the to-predict group index map.
C1_SupportPartition ==
    (IsEF /\ pc # "start") =>
        /\ Range(supported_index) =
             {i \in TestRows : TestLabel(i) \in Range(train_groupdata)}
        /\ Range(unsupported_index) =
             {i \in TestRows : TestLabel(i) \notin Range(train_groupdata)}
        /\ Range(supported_index) \cap Range(unsupported_index) = {}
        /\ NoDuplicates(supported_index)
        /\ NoDuplicates(unsupported_index)
        /\ Range(supported_index) \cup Range(unsupported_index) = TestRows

C1_Witness ==
    /\ IsEF /\ pc = "matched"
    /\ train_groupdata = <<1, 2>>
    /\ test_groupdata = <<2, 3, 2, 3>>
    /\ supported_index = <<0, 2>>
    /\ unsupported_index = <<1, 3>>

\* the training rows of the matched groups
MatchedTrainRows ==
    {i \in TrainRows : TrainLabel(i) \in Range(test_groupdata)}

\* position of the first training row that bears the label of row i
FirstSeen(i) ==
    CHOOSE p \in 1..Len(train_groupdata) :
        /\ train_groupdata[p] = TrainLabel(i)
        /\ \A q \in 1..(p - 1) : train_groupdata[q] # TrainLabel(i)

\* C3 (as claimed): with fit_only_on_matched_groups = 1 the fit index of
\* ExtrapolateFull.execute lists the matched groups in the order the groups
\* were first met in the training data, the rows of a group in row order.
C3_EncounterOrder ==
    (IsEF /\ pc # "start" /\ fit_only_on_matched_groups = 1) =>
        \A p, q \in 1..Len(fit_index) :
            p < q =>
                \/ FirstSeen(fit_index[p]) < FirstSeen(fit_index[q])
                \/ /\ TrainLabel(fit_index[p]) = TrainLabel(fit_index[q])
                   /\ fit_index[p] < fit_index[q]

\* C3 (amended): with fit_only_on_matched_groups = 1 the fit index lists
\* exactly the rows of the matched groups, the groups in ascending label
\* order (the order np.intersect1d returns) and the rows of a group in
\* original row order.
C3_SortedGroupOrder ==
    (IsEF /\ pc # "start" /\ fit_only_on_matched_groups = 1) =>
        /\ Range(fit_index) = MatchedTrainRows
        /\ NoDuplicates(fit_index)
        /\ \A p, q \in 1..Len(fit_index) :
              p < q =>
                 \/ TrainLabel(fit_index[p]) < TrainLabel(fit_index[q])
                 \/ /\ TrainLabel(fit_index[p]) = TrainLabel(fit_index[q])
                    /\ fit_index[p] < fit_index[q]

C3_Witness ==
    /\ IsEF /\ pc = "matched" /\ fit_only_on_matched_groups = 1
    /\ train_groupdata = <<3, 2>>
    /\ Range(test_groupdata) = {2, 3}
    /\ fit_index = <<1, 0>>

Count(s, x) == Cardinality({i \in DOMAIN s : s[i] = x})

StatisticsStarted == rms # NoRms

\* C4: in ExtrapolateFull.execute model.fit is called once, then
\* model.predict once on the full evaluation matrix, and both calls are over
\* before the first of the three RMSE values is computed.
C4_FitThenPredictOnce ==
    IsEF =>
        /\ Count(calls, "fit") <= 1
        /\ Count(calls, "predict(topredict_Xdata)") <= 1
        /\ Range(calls) \subseteq
             {"fit", "predict(topredict_Xdata)", "predict(std_Xdata)"}
        /\ (Len(calls) >= 1 => calls[1] = "fit")
        /\ (StatisticsStarted \/ pc \in {"statistics", "raised", "done"}) =>
              /\ Len(calls) >= 2
              /\ calls[1] = "fit"
              /\ calls[2] = "predict(topredict_Xdata)"
              /\ Count(calls, "fit") = 1
              /\ Count(calls, "predict(topredict_Xdata)") = 1

C4_Witness ==
    /\ IsEF /\ pc = "done" /\ has_std
    /\ rms.overall.st = "ok"
    /\ calls = <<"fit", "predict(topredict_Xdata)", "predict(std_Xdata)">>

\* C5 (as claimed): ExtrapolateFull.execute never raises; with an empty
\* supported or unsupported row list, or no evaluation rows, the RMSE is
\* reported as undefined and the run goes on to the report and the plot.
C5_EmptySubsetDoesNotRaise ==
    IsEF => pc # "raised"

SquaredError(i) ==
    (Ypredict[i + 1] - Measured(Len(test_groupdata))[i + 1])
      * (Ypredict[i + 1] - Measured(Len(test_groupdata))[i + 1])

RECURSIVE SumSquaredErrors(_)
SumSquaredErrors(S) ==
    IF S = {} THEN 0
    ELSE LET x == CHOOSE x \in S : TRUE
         IN SquaredError(x) + SumSquaredErrors(S \ {x})

MseOver(S) == [st |-> "ok", sse |-> SumSquaredErrors(S), n |-> Cardinality(S)]

\* C6: every RMSE ExtrapolateFull.execute computes is the root of the mean
\* squared error over its rows: overall over every evaluation row, supported
\* over the rows of groups seen in training, unsupported over the others.
C6_RmseOverRows ==
    IsEF =>
        /\ rms.overall.st = "ok" => rms.overall = MseOver(TestRows)
        /\ rms.supported.st = "ok" =>
              rms.supported =
                MseOver({i \in TestRows : TestLabel(i) \in Range(train_groupdata)})
        /\ rms.unsupported.st = "ok" =>
              rms.unsupported =
                MseOver({i \in TestRows : TestLabel(i) \notin Range(train_groupdata)})

\* measured [1,2,3,4], predicted [1,2,3,6], supported [0,1,2], unsupported [3]:
\* overall RMSE 1, supported 0, unsupported 2
C6_Witness ==
    /\ IsEF /\ pc = "done"
    /\ Measured(Len(test_groupdata)) = <<1, 2, 3, 4>>
    /\ Ypredict = <<1, 2, 3, 6>>
    /\ supported_index = <<0, 1, 2>>
    /\ unsupported_index = <<3>>
    /\ rms.overall.sse = 1 * 1 * rms.overall.n
    /\ rms.supported.sse = 0
    /\ rms.unsupported.sse = 2 * 2 * rms.unsupported.n

\* the evaluation labels the workflow matches the training groups against:
\* ExtrapolateFullFit reads its test data through the plot filters
EvalLabels ==
    IF workflow = "ExtrapolateFullFit"
    THEN Range(test_groupdata) \ test_excluded
    ELSE Range(test_groupdata)

IsSFG == workflow = "SingleFitGrouped"

GroupStatisticsDone ==
    pc \in {"group_statistics", "scanning", "statistics", "done"}

RowsOfGroup(g) == {i \in TestRows : TestLabel(i) = g}

\* C7: after get_per_group_statistics every test group has a record whose
\* 'rmse' is taken over all rows of the group; the record holds
\* 'rmse_plot_filter_out' if and only if a plot filter is configured and a
\* row of the group is in the plotting index, and then it is the error over
\* those rows; with no surviving row the key is absent.
C7_PerGroupRecords ==
    (IsSFG /\ GroupStatisticsDone) =>
        /\ DOMAIN per_group_statistics = Range(test_groupdata)
        /\ \A g \in Range(test_groupdata) :
              LET rec == per_group_statistics[g]
                  shown == RowsOfGroup(g) \cap plotting_index
              IN /\ "rmse" \in DOMAIN rec
                 /\ rec["rmse"] = MseOver(RowsOfGroup(g))
                 /\ DOMAIN rec \subseteq {"rmse", "rmse_plot_filter_out"}
                 /\ ("rmse_plot_filter_out" \in DOMAIN rec) <=>
                       (plot_filter_set /\ shown # {})
                 /\ ("rmse_plot_filter_out" \in DOMAIN rec) =>
                       rec["rmse_plot_filter_out"] = MseOver(shown)

C7_Witness ==
    /\ IsSFG /\ pc = "group_statistics"
    /\ plot_filter_set
    /\ test_groupdata = <<1, 2, 1>>
    /\ plotting_index = {1}
    /\ DOMAIN per_group_statistics[1] = {"rmse"}
    /\ DOMAIN per_group_statistics[2] = {"rmse", "rmse_plot_filter_out"}

OutlyingGroupsDone == pc \in {"statistics", "done"}

CriterionGroups ==
    {g \in Range(test_groups) :
        Criterion(plot_filter_set) \in DOMAIN per_group_statistics[g]}

CriterionValue(g) == per_group_statistics[g][Criterion(plot_filter_set)]

\* C8 (as claimed): when mark_outlying_groups is smaller than the number of
\* groups that carry the criterion, the labels get_outlying_groups returns
\* are that many groups carrying the criterion, none of them with a lower
\* value than a group left out.
C8_TopK ==
    (IsSFG /\ OutlyingGroupsDone
       /\ mark_outlying_groups < Cardinality(CriterionGroups)) =>
        /\ Range(outlying_groups) \subseteq CriterionGroups
        /\ Cardinality(Range(outlying_groups)) = mark_outlying_groups
        /\ \A a \in Range(outlying_groups) : \A b \in CriterionGroups :
              b \notin Range(outlying_groups) =>
                 ~ValueLess(CriterionValue(a), CriterionValue(b))

\* C9 (as claimed): when mark_outlying_groups is at least the number of
\* groups that carry the criterion, the labels other than "nogroup" that
\* get_outlying_groups returns are exactly those groups.
C9_AllGroupsMarked ==
    (IsSFG /\ OutlyingGroupsDone
       /\ mark_outlying_groups >= Cardinality(CriterionGroups)) =>
        Range(outlying_groups) \ {NoGroup} = CriterionGroups

\* C10 (as claimed): the list get_outlying_groups produces has length
\* min(mark_outlying_groups, number of groups that carry the criterion).
C10_LengthCountsCriterionGroups ==
    (IsSFG /\ OutlyingGroupsDone) =>
        Len(outlying_groups) =
          Min(mark_outlying_groups, Cardinality(CriterionGroups))

\* C10 (amended): the list get_outlying_groups produces has length
\* min(mark_outlying_groups, number of test groups): a test group whose rows
\* the plot filter all removes still counts, and its slot keeps "nogroup".
C10_LengthCountsTestGroups ==
    (IsSFG /\ OutlyingGroupsDone) =>
        Len(outlying_groups) =
          Min(mark_outlying_groups, Cardinality(Range(test_groupdata)))

C10_Witness ==
    /\ IsSFG /\ pc = "statistics"
    /\ plot_filter_set
    /\ mark_outlying_groups = 2
    /\ Cardinality(Range(test_groupdata)) = 2
    /\ Cardinality(CriterionGroups) = 1
    /\ Len(outlying_groups) = 2
    /\ NoGroup \in Range(outlying_groups)

\* C11 (as claimed): with mark_outlying_groups = 0 the call of
\* get_outlying_groups that follows get_per_group_statistics runs to its end
\* without raising, for one or more test groups as well as for none.
C11_ZeroMarkCompletes ==
    (IsSFG /\ mark_outlying_groups = 0 /\ DOMAIN per_group_statistics # {}) =>
        pc # "raised"

\* C12 (as claimed): every label plot_results hands to the plotting code as
\* an outlying group is the label of a test group; "nogroup" is not among
\* them.
C12_OnlyRealLabelsPlotted ==
    (IsSFG /\ pc = "done") =>
        Range(plotted_outlying_groups) \subseteq Range(test_groups)

\* C13: SingleFitGrouped raises its configuration errors before the model is
\* used: without a grouping feature the constructor raises, so set_data never
\* runs; without testing target data set_data raises; in both cases neither
\* model.fit nor model.predict has been called, then or later.
C13_ConfigurationErrorBeforeFit ==
    IsSFG =>
        /\ group_field_name = "None" =>
              /\ pc \in {"start", "raised"}
              /\ test_groups = <<>>
        /\ ~has_test_target => pc \in {"start", "constructed", "raised"}
        /\ (group_field_name = "None" \/ ~has_test_target) => calls = <<>>
        /\ pc = "raised" => calls = <<>>

C13_Witness ==
    /\ IsSFG /\ pc = "raised"
    /\ group_field_name = "group"
    /\ ~has_test_target
    /\ test_groupdata # <<>>
    /\ test_groups = get_logo_indices(test_groupdata).keys
    /\ calls = <<>>

IsEFF == workflow = "ExtrapolateFullFit"

\* a piece of plot_filter_out that does not have exactly three fields
Malformed(piece) == Len(piece) # 3

\* C14 (as claimed): once ExtrapolateFullFit.execute has gone through
\* plot_filter_out, a piece with fewer or with more than three fields has
\* stopped the run with an error, before the model is fitted.
C14_MalformedTripletIsFatal ==
    (IsEFF /\ pc # "start"
       /\ \E i \in DOMAIN plot_filter_out : Malformed(plot_filter_out[i])) =>
        /\ pc = "raised"
        /\ calls = <<>>

\* a pass of the loop of get_outlying_groups that writes into a slot
SlotReplaced ==
    /\ IsSFG /\ pc = "scanning" /\ pc' = "scanning"
    /\ highest_rmses' # highest_rmses

ReplacedSlots ==
    {i \in DOMAIN highest_rmses : highest_rmses'[i] # highest_rmses[i]}

\* C15 (as claimed): the slot get_outlying_groups replaces is the first slot,
\* in slot order, that holds the least value, whatever labels the slots of
\* that value hold.
C15_FirstMinimumSlot ==
    [][SlotReplaced =>
          \E i \in DOMAIN highest_rmses :
             /\ ReplacedSlots = {i}
             /\ \A j \in DOMAIN highest_rmses :
                   ~ValueLess(highest_rmses[j].v, highest_rmses[i].v)
             /\ \A j \in 1..(i - 1) :
                   ValueLess(highest_rmses[i].v, highest_rmses[j].v)]_vars

\* C15 (amended): the slot get_outlying_groups replaces is the first slot
\* that holds the least (value, label) pair: a slot of the least value, and
\* among the slots of that value the one with the least label (the first of
\* them when they hold the same pair, as unused slots do).  It receives the
\* value and the label of the group, whose value exceeds that of the slot.
C15_LeastPairSlot ==
    [][SlotReplaced =>
          \E i \in DOMAIN highest_rmses :
             /\ ReplacedSlots = {i}
             /\ \A j \in DOMAIN highest_rmses :
                   ~EntryLess(highest_rmses[j], highest_rmses[i])
             /\ \A j \in 1..(i - 1) :
                   EntryLess(highest_rmses[i], highest_rmses[j])
             /\ highest_rmses'[i].g = test_groups[scan + 1]
             /\ highest_rmses'[i].v = CriterionValue(test_groups[scan + 1])
             /\ ValueLess(highest_rmses[i].v, highest_rmses'[i].v)]_vars

\* groups 2, 1, 3 with RMSE 1, 1, 2 and two slots: the slots hold (1, 2) and
\* (1, 1) when group 3 is met, and group 3 has replaced group 1 in slot 2
C15_Witness ==
    /\ IsSFG /\ pc = "scanning" /\ scan = 3
    /\ ~plot_filter_set
    /\ mark_outlying_groups = 2
    /\ test_groupdata = <<2, 1, 3>>
    /\ Ypredict = <<2, 3, 5>>
    /\ highest_rmses[1].g = 2
    /\ highest_rmses[2].g = 3

RECURSIVE ScanAll(_, _, _, _)
\* the slots after the loop of get_outlying_groups has met the groups in the
\* given order
ScanAll(slots, stats, criterion, groups) ==
    IF groups = <<>> \/ slots = <<>> THEN slots
    ELSE ScanAll(ScanGroup(slots, stats, criterion, Head(groups)),
                 stats, criterion, Tail(groups))

\* the labels get_outlying_groups selects when it meets the groups in the
\* given order, the statistics being those of the run
SelectedIn(order) ==
    LET slots == ScanAll([i \in 1..NumMark(mark_outlying_groups, order) |->
                            Sentinel],
                         per_group_statistics, Criterion(plot_filter_set),
                         order)
    IN {slots[i].g : i \in DOMAIN slots}

\* C16 (as claimed): get_outlying_groups meets the test groups in ascending
\* label order, so the set of labels it selects is the one that order gives
\* with the per-group statistics of the run, whatever order the rows of the
\* testing dataset put the groups in: two datasets with the same groups and
\* per-group statistics select the same set.
C16_SortedIterationOrder ==
    (IsSFG /\ OutlyingGroupsDone) =>
        /\ test_groups = SortedSeq(Range(test_groups))
        /\ Range(outlying_groups) = SelectedIn(SortedSeq(Range(test_groups)))

\* the test groups the loop of get_outlying_groups has met so far
GroupsMet == {test_groups[i] : i \in 1..scan}

\* the list a call of get_outlying_groups builds from the state it starts in
SelectedList ==
    LET slots == ScanAll([i \in 1..NumMark(mark_outlying_groups, test_groups)
                            |-> Sentinel],
                         per_group_statistics, Criterion(plot_filter_set),
                         test_groups)
    IN [i \in DOMAIN slots |-> slots[i].g]

\* every slot is unused or holds the value and label of a group already met
\* that carries the criterion with a value above 0; no label is in two slots
SlotsWellFormed ==
    (IsSFG /\ pc \in {"scanning", "statistics", "done"}) =>
        /\ Len(highest_rmses) = NumMark(mark_outlying_groups, test_groups)
        /\ \A i \in DOMAIN highest_rmses :
              \/ highest_rmses[i] = Sentinel
              \/ /\ highest_rmses[i].g \in GroupsMet \cap CriterionGroups
                 /\ highest_rmses[i].v = CriterionValue(highest_rmses[i].g)
                 /\ ValueLess(Zero, highest_rmses[i].v)
        /\ \A i, j \in DOMAIN highest_rmses :
              (i # j /\ highest_rmses[i].g = highest_rmses[j].g) =>
                 highest_rmses[i].g = NoGroup

\* after a call, the first or a later one, outlying_groups lists the labels
\* of the slots and nothing else: the list the statistics determine
CallRebuildsList ==
    (IsSFG /\ OutlyingGroupsDone) =>
        /\ outlying_groups =
             [i \in DOMAIN highest_rmses |-> highest_rmses[i].g]
        /\ outlying_groups = SelectedList

\* no step of get_outlying_groups assigns the statistics or the group index
StatisticsUntouched ==
    (IsSFG /\ pc \in {"group_statistics", "scanning", "statistics"}) =>
        UNCHANGED <<per_group_statistics, test_groups, test_groupdata,
                    Ypredict>>

\* C17: at every pass of the loop of get_outlying_groups and after every
\* call, each slot holds the sentinel or the (value, label) of a test group
\* that carries the criterion with a value above 0, and no label is in two
\* slots; each call rebuilds outlying_groups from scratch, so that a further
\* call gives the same list; per_group_statistics and the test groups are
\* left as they were.
C17_SlotsAndRepeatedCalls ==
    /\ [](SlotsWellFormed /\ CallRebuildsList)
    /\ [][StatisticsUntouched]_vars

\* a second call has returned; one slot holds group 2, the other is unused
C17_Witness ==
    /\ IsSFG /\ pc = "statistics" /\ repeated
    /\ mark_outlying_groups = 2
    /\ test_groupdata = <<1, 2>>
    /\ Ypredict = <<1, 4>>
    /\ outlying_groups = <<2, NoGroup>>

====
